---- MODULE Spec2Model ----
(***************************************************************************)
(* Model of the document-generation core of DocGen:                        *)
(*   backend/ai/html_parser.py        HTMLSectionParser (top-level flow)   *)
(*   backend/ai/project_analyzer.py   the parts build_prompt depends on    *)
(*   backend/ai/content_generator.py  ContentGenerator                     *)
(*   backend/ai/workflow.py           DocumentGenerationWorkflow           *)
(*                                                                         *)
(* Strings of HTML are sequences of tokens; a template is a sequence of    *)
(* top-level element tags.  Time is in milliseconds and an API call takes  *)
(* no time of its own, so elapsed time is the time spent in backoff.       *)
(***************************************************************************)
EXTENDS Integers, Sequences, FiniteSets, TLC

VARIABLES
    html_template,          \* WorkflowState["html_template"]
    project_context,        \* WorkflowState["project_context"]
    sections,               \* WorkflowState["sections"]
    generated_sections,     \* WorkflowState["generated_sections"]
    final_html,             \* WorkflowState["final_html"]
    errors,                 \* WorkflowState["errors"]
    current_section_index,  \* WorkflowState["current_section_index"] (0-based)
    total_sections,         \* WorkflowState["total_sections"]
    idx,                    \* loop variable of run(): next value of range()
    pc,                     \* position of the caller (run or generate_sections)
    frames,                 \* one generate_section call frame per section
    returned,               \* value each generate_section call returned
    semaphore,              \* ContentGenerator.semaphore: free permits
    gathered,               \* value returned by generate_sections
    api_failures,           \* responses other than a valid text, counted under generate_sections
    _user_requests,         \* RateLimiter._user_requests
    clock                   \* time.time(), in seconds

vars == <<html_template, project_context, sections, generated_sections,
          final_html, errors, current_section_index, total_sections, idx,
          pc, frames, returned, semaphore, gathered, api_failures,
          _user_requests, clock>>

limvars == <<_user_requests, clock>>

wfvars == <<html_template, project_context, sections, generated_sections,
            final_html, errors, current_section_index, total_sections, idx>>

(***************************************************************************)
(* Bounds                                                                  *)
(***************************************************************************)
MaxElems == 3

NumGather == 6

MaxApiFailures == 3

MaxParseElems == 4

MaxHashSeed == 2

MaxDay == 1

(***************************************************************************)
(* Small helpers on sequences                                              *)
(***************************************************************************)
RECURSIVE SeqsUpTo(_, _)
SeqsUpTo(S, n) ==
    IF n = 0 THEN {<<>>}
    ELSE LET shorter == SeqsUpTo(S, n - 1)
         IN  shorter \cup {Append(s, x) : s \in {q \in shorter : Len(q) = n - 1}, x \in S}

RECURSIVE SumSeq(_)
SumSeq(s) == IF s = <<>> THEN 0 ELSE Head(s) + SumSeq(Tail(s))

(***************************************************************************)
(* models.py                                                               *)
(***************************************************************************)
VALID == "valid"

INVALID == "invalid"

HEADING == "heading"

PARAGRAPH == "paragraph"

TABLE == "table"

LIST == "list"

CODE_BLOCK == "code_block"

None == <<>>

(***************************************************************************)
(* html_parser.py: HTMLSectionParser over a flat list of top-level         *)
(* elements, every one of them with visible text that no other element     *)
(* has.  Lists are small (not _is_complex_list); a code block is a pre     *)
(* with a short line of text ("pre"), with 4 short lines ("pre4") or with  *)
(* one line of 201 characters ("pre201").                                  *)
(***************************************************************************)
heading_tags == {"h1", "h2", "h3", "h4", "h5", "h6"}

list_tags == {"ul", "ol", "dl"}

code_tags == {"pre", "code"}

ElemTags == {"h1", "table"}

Templates == SeqsUpTo(ElemTags, MaxElems)

ParseTags == {"h1", "h2", "h3", "p", "table", "ul", "pre", "pre4", "pre201"}

ParseTemplates == SeqsUpTo(ParseTags, MaxParseElems)

\* uuid4(): a fresh identifier; here derived from the first element's position
NewId(first) == 10 + first

\* parent_id = None
NoId == 0

\* str(elem): the element's tag and its text, named by its position
Serialize(tmpl, e) == <<tmpl[e], e>>

\* element.name
name(tag) == IF tag \in {"pre4", "pre201"} THEN "pre" ELSE tag

\* the text of the element in the input: its lines and its characters, the
\* newlines between the lines included
input_text(tag) ==
    CASE tag = "pre4"   -> [lines |-> 4, chars |-> 60]
      [] tag = "pre201" -> [lines |-> 1, chars |-> 201]
      [] OTHER          -> [lines |-> 1, chars |-> 20]

\* lines 894-897: re.sub(r'\s+', ' ', text.string) on every text node; each
\* newline becomes a space
_clean_html(text) == [text EXCEPT !.lines = 1]

\* get_text() of the cleaned tree
get_text(tag) == _clean_html(input_text(tag))

\* len(text_content.split('\n')) > 3 or len(text_content) > 200
_is_large_code_block(tag) == get_text(tag).lines > 3 \/ get_text(tag).chars > 200

_should_be_standalone(tag) ==
    \/ name(tag) = "table"
    \/ name(tag) \in code_tags /\ _is_large_code_block(tag)

_is_simple_element(tag) == tag \in {"p", "span", "div", "br", "strong", "em", "a"}

_get_element_grouping_type(tag) ==
    IF tag \in heading_tags THEN "heading"
    ELSE IF tag = "table" THEN "table"
    ELSE IF tag \in list_tags THEN "list"
    ELSE IF name(tag) \in code_tags THEN "code"
    ELSE IF tag \in {"p", "div", "span"} THEN "paragraph"
    ELSE "other"

_determine_group_section_type(tag) ==
    IF tag \in heading_tags THEN HEADING
    ELSE IF tag = "table" THEN TABLE
    ELSE IF tag \in list_tags THEN LIST
    ELSE IF name(tag) \in code_tags THEN CODE_BLOCK
    ELSE PARAGRAPH

\* int(main_tag[1])
HeadingLevel(tag) ==
    CASE tag = "h1" -> 1 [] tag = "h2" -> 2 [] tag = "h3" -> 3
      [] tag = "h4" -> 4 [] tag = "h5" -> 5 [] tag = "h6" -> 6 [] OTHER -> 0

\* extract_section_metadata(...).level: the first of h1..h6 the section holds
metadata_level(tmpl, elems, section_type) ==
    LET found == {HeadingLevel(tmpl[elems[i]]) :
                     i \in {j \in 1..Len(elems) : tmpl[elems[j]] \in heading_tags}}
    IN  IF section_type # HEADING \/ found = {} THEN 0
        ELSE CHOOSE l \in found : \A m \in found : l <= m

\* elems: non-empty sequence of positions in tmpl
_create_content_section(tmpl, elems, section_type, order_index) ==
    [id           |-> NewId(elems[1]),
     html_content |-> [i \in 1..Len(elems) |-> Serialize(tmpl, elems[i])],
     section_type |-> section_type,
     level        |-> metadata_level(tmpl, elems, section_type),
     parent_id    |-> NoId,
     children     |-> <<>>,
     order_index  |-> order_index]

_create_grouped_section(tmpl, elems, order_index) ==
    _create_content_section(tmpl, elems,
        _determine_group_section_type(tmpl[elems[1]]), order_index)

_create_standalone_section(tmpl, e, order_index) ==
    _create_content_section(tmpl, <<e>>,
        IF tmpl[e] = "table" THEN TABLE
        ELSE IF tmpl[e] \in list_tags THEN LIST
        ELSE IF name(tmpl[e]) \in code_tags THEN CODE_BLOCK
        ELSE PARAGRAPH, order_index)

_should_break_group(tmpl, group, e) ==
    \/ Len(group) > 5
    \/ Len(group) > 0 /\ _is_simple_element(tmpl[group[1]]) /\ ~_is_simple_element(tmpl[e])

\* returns the groups as a sequence of sequences of positions
RECURSIVE _group_elements_by_type(_, _, _, _)
_group_elements_by_type(tmpl, e, groups, current_group) ==
    IF e > Len(tmpl)
    THEN IF current_group # <<>> THEN Append(groups, current_group) ELSE groups
    ELSE LET current_type == IF current_group = <<>> THEN "none"
                             ELSE _get_element_grouping_type(tmpl[current_group[1]])
             brk == \/ current_type # _get_element_grouping_type(tmpl[e])
                    \/ _should_be_standalone(tmpl[e])
                    \/ current_group # <<>> /\ _should_break_group(tmpl, current_group, e)
         IN  IF brk
             THEN _group_elements_by_type(tmpl, e + 1,
                      IF current_group # <<>> THEN Append(groups, current_group) ELSE groups,
                      <<e>>)
             ELSE _group_elements_by_type(tmpl, e + 1, groups, Append(current_group, e))

\* the parser's progress: the sections so far and the next order_index
NoSections == [raised |-> FALSE, sections |-> <<>>, order_index |-> 0]

AppendSection_same_index(st, section) ==
    [st EXCEPT !.sections = Append(@, section)]

\* sections.append(section); order_index += 1
AppendSection(st, section) ==
    [st EXCEPT !.sections = Append(@, section), !.order_index = @ + 1]

\* lines 271-282
RECURSIVE GroupsLoop(_, _, _, _)
GroupsLoop(tmpl, groups, g, st) ==
    IF g > Len(groups) THEN st
    ELSE GroupsLoop(tmpl, groups, g + 1,
             AppendSection(st, _create_content_section(tmpl, groups[g],
                 _determine_group_section_type(tmpl[groups[g][1]]), st.order_index)))

_group_content_without_headings(tmpl, start_order) ==
    GroupsLoop(tmpl, _group_elements_by_type(tmpl, 1, <<>>, <<>>), 1,
               [NoSections EXCEPT !.order_index = start_order])

\* The while loop over the siblings of one heading (lines 131-153), followed
\* by the section for what is left (lines 156-160).  cur runs from the
\* heading's next sibling to the next heading; he is heading_elements.
\* heading_elements[0] of an empty list raises IndexError.
RECURSIVE HeadingLoop(_, _, _, _, _, _)
HeadingLoop(tmpl, heading, cur, stop, he, st) ==
    IF cur >= stop
    THEN IF he # <<>>
         THEN AppendSection(st, _create_grouped_section(tmpl, he, st.order_index))
         ELSE st
    ELSE IF _should_be_standalone(tmpl[cur])
         THEN IF he = <<>>
              THEN [st EXCEPT !.raised = TRUE]
              ELSE LET flush == Len(he) > 1 \/ he[1] # heading
                       st1 == IF flush
                              THEN AppendSection(st, _create_grouped_section(tmpl, he, st.order_index))
                              ELSE st
                       st2 == AppendSection(st1, _create_standalone_section(tmpl, cur, st1.order_index))
                   IN  HeadingLoop(tmpl, heading, cur + 1, stop, <<>>, st2)
         ELSE HeadingLoop(tmpl, heading, cur + 1, stop, Append(he, cur), st)

\* for i, heading in enumerate(all_headings) (lines 124-160)
RECURSIVE HeadingsLoop(_, _, _, _)
HeadingsLoop(tmpl, all_headings, i, st) ==
    IF i > Len(all_headings)
    THEN st
    ELSE LET heading == all_headings[i]
             stop    == IF i + 1 <= Len(all_headings) THEN all_headings[i + 1]
                        ELSE Len(tmpl) + 1
             r       == HeadingLoop(tmpl, heading, heading + 1, stop, <<heading>>, st)
         IN  IF r.raised THEN r
             ELSE HeadingsLoop(tmpl, all_headings, i + 1, r)

\* content_root.find_all(tag) for the heading tags, sorted by position
RECURSIVE find_all_headings(_, _)
find_all_headings(tmpl, i) ==
    IF i > Len(tmpl) THEN <<>>
    ELSE (IF tmpl[i] \in heading_tags THEN <<i>> ELSE <<>>) \o find_all_headings(tmpl, i + 1)

_parse_with_intelligent_grouping(tmpl) ==
    LET all_headings == find_all_headings(tmpl, 1)
    IN  IF all_headings = <<>>
        THEN _group_content_without_headings(tmpl, 0)
        ELSE LET first_heading == all_headings[1]
                 pre == [i \in 1..(first_heading - 1) |-> i]
                 st  == IF pre # <<>>
                        THEN AppendSection(NoSections, _create_grouped_section(tmpl, pre, 0))
                        ELSE NoSections
             IN  HeadingsLoop(tmpl, all_headings, 1, st)

\* sections.sort(key=lambda x: x.order_index): a stable sort
RECURSIVE insert_by_order_index(_, _)
insert_by_order_index(sorted, s) ==
    IF sorted = <<>> THEN <<s>>
    ELSE IF sorted[Len(sorted)].order_index <= s.order_index THEN Append(sorted, s)
    ELSE Append(insert_by_order_index(SubSeq(sorted, 1, Len(sorted) - 1), s), sorted[Len(sorted)])

RECURSIVE sort_by_order_index(_)
sort_by_order_index(secs) ==
    IF secs = <<>> THEN <<>>
    ELSE insert_by_order_index(sort_by_order_index(SubSeq(secs, 1, Len(secs) - 1)), secs[Len(secs)])

\* section_map[id] (line 819); as a 1-based index
section_map(secs, id) ==
    CHOOSE i \in 1..Len(secs) :
        secs[i].id = id /\ \A j \in 1..Len(secs) : secs[j].id = id => j <= i

StackPops_strict(top_level, current_level) == top_level > current_level

\* line 830: parent_stack[-1][1] >= current_level
StackPops(top_level, current_level) == top_level >= current_level

RECURSIVE pop_stack(_, _)
pop_stack(parent_stack, current_level) ==
    IF parent_stack # <<>> /\ StackPops(parent_stack[Len(parent_stack)][2], current_level)
    THEN pop_stack(SubSeq(parent_stack, 1, Len(parent_stack) - 1), current_level)
    ELSE parent_stack

ScanStart_from_end(secs, order_index) == Len(secs) - 1

\* line 846: range(section.order_index - 1, -1, -1)
ScanStart(secs, order_index) == order_index - 1

\* lines 846-849, from the 0-based index i down; 0 when no heading is found,
\* else the 1-based index of closest_heading
RECURSIVE closest_heading(_, _)
closest_heading(secs, i) ==
    IF i < 0 THEN 0
    ELSE IF i < Len(secs) /\ secs[i + 1].section_type = HEADING THEN i + 1
    ELSE closest_heading(secs, i - 1)

\* section.parent_id = parent.id; parent.children.append(section.id)
link(secs, parent_idx, k) ==
    [i \in 1..Len(secs) |->
        IF i = k /\ i = parent_idx
        THEN [secs[i] EXCEPT !.parent_id = secs[parent_idx].id, !.children = Append(@, secs[k].id)]
        ELSE IF i = k THEN [secs[i] EXCEPT !.parent_id = secs[parent_idx].id]
        ELSE IF i = parent_idx THEN [secs[i] EXCEPT !.children = Append(@, secs[k].id)]
        ELSE secs[i]]

\* for section in sections (lines 825-853)
RECURSIVE HierarchyLoop(_, _, _)
HierarchyLoop(secs, k, parent_stack) ==
    IF k > Len(secs) THEN secs
    ELSE IF secs[k].section_type = HEADING
         THEN LET current_level == secs[k].level
                  stack == pop_stack(parent_stack, current_level)
                  secs1 == IF stack # <<>>
                           THEN link(secs, section_map(secs, stack[Len(stack)][1]), k)
                           ELSE secs
              IN  HierarchyLoop(secs1, k + 1, Append(stack, <<secs[k].id, current_level>>))
         ELSE LET c == closest_heading(secs, ScanStart(secs, secs[k].order_index))
              IN  HierarchyLoop(IF c # 0 THEN link(secs, c, k) ELSE secs, k + 1, parent_stack)

_establish_section_hierarchy(secs) == HierarchyLoop(sort_by_order_index(secs), 1, <<>>)

parse_template(tmpl) ==
    IF tmpl = <<>> THEN NoSections
    ELSE LET r == _parse_with_intelligent_grouping(tmpl)
         IN  IF r.raised THEN r
             ELSE [r EXCEPT !.sections = _establish_section_hierarchy(@)]

(***************************************************************************)
(* models.py: ProjectContext.  A JSON value of json_overrides is           *)
(* [t, items]: t its type, items the entries of a dict or list, each with  *)
(* its key (k) and the type of its value (t).                              *)
(***************************************************************************)
Absent == [t |-> "absent", items |-> <<>>]

JDict(items) == [t |-> "dict", items |-> items]

JList(items) == [t |-> "list", items |-> items]

ProjectContext(timeline, resources) ==
    [project_name        |-> "NAME",
     project_description |-> {},
     json_overrides      |-> [timeline |-> timeline, resources |-> resources,
                              complexity |-> Absent, hours |-> Absent]]

Contexts ==
    { ProjectContext(Absent, Absent),
      ProjectContext(JDict(<<[k |-> "design", t |-> "int"]>>), Absent),
      ProjectContext(Absent, JList(<<[k |-> "", t |-> "str"], [k |-> "", t |-> "int"]>>)) }

(***************************************************************************)
(* project_analyzer.py: the types of the values build_prompt formats       *)
(***************************************************************************)
BASE_HOURS_phases ==
    <<"requirements", "design", "development", "testing", "deployment", "documentation">>

\* result[phase] = timeline for every entry of the override dict
RECURSIVE dict_update(_, _)
dict_update(d, items) ==
    IF items = <<>> THEN d
    ELSE LET it == Head(items)
             at == {i \in 1..Len(d) : d[i].k = it.k}
             d1 == IF at = {} THEN Append(d, it)
                   ELSE [i \in 1..Len(d) |-> IF i \in at THEN it ELSE d[i]]
         IN  dict_update(d1, Tail(items))

\* the computed entries are all strings "Week a - Week b" / "n weeks"
_calculate_timeline(context) ==
    LET computed == [i \in 1..Len(BASE_HOURS_phases) |-> [k |-> BASE_HOURS_phases[i], t |-> "str"]]
                    \o <<[k |-> "duration", t |-> "str"]>>
        ov == context.json_overrides.timeline
    IN  IF ov.t = "dict" THEN dict_update(computed, ov.items) ELSE computed

\* re.search(pattern, timeline) raises TypeError unless timeline is a string
_generate_custom_values_raises(context) ==
    LET tl == _calculate_timeline(context)
    IN  \E i \in 1..Len(tl) : tl[i].k # "duration" /\ tl[i].t # "str"

_determine_resources(context) ==
    LET ov == context.json_overrides.resources
    IN  IF ov.t = "list" THEN ov.items
        ELSE <<[k |-> "", t |-> "str"], [k |-> "", t |-> "str"]>>

analyze_project_scope_raises(context) == _generate_custom_values_raises(context)

BASE_HOURS == <<20, 30, 100, 40, 15, 10>>

\* scores are counted in units of 1/Scale: 1.0 is 1000
Scale == 1000

\* a JSON number, in units of 1/Scale where it is a score
JNum(x) == [t |-> "number", items |-> <<>>, x |-> x]

\* a JSON string that float() and int() reject
JStr == [t |-> "str", items |-> <<>>]

\* COMPLEXITY_FACTORS, in tenths, in the order of the dict
COMPLEXITY_FACTORS ==
    <<[k |-> "web", f |-> 10], [k |-> "mobile", f |-> 12], [k |-> "desktop", f |-> 11],
      [k |-> "api", f |-> 9], [k |-> "data", f |-> 13], [k |-> "ml", f |-> 15],
      [k |-> "blockchain", f |-> 16], [k |-> "iot", f |-> 14], [k |-> "game", f |-> 13],
      [k |-> "enterprise", f |-> 14]>>

\* lines 106-108; description: the words that occur in project_description
RECURSIVE apply_factors(_, _, _)
apply_factors(base_score, description, i) ==
    IF i > Len(COMPLEXITY_FACTORS) THEN base_score
    ELSE apply_factors(IF COMPLEXITY_FACTORS[i].k \in description
                       THEN (base_score * COMPLEXITY_FACTORS[i].f) \div 10
                       ELSE base_score,
                       description, i + 1)

clamp_missing(base_score) == base_score

\* line 131: max(0.5, min(3.0, base_score))
clamp(base_score) ==
    LET m == IF base_score < 3 * Scale THEN base_score ELSE 3 * Scale
    IN  IF m > Scale \div 2 THEN m ELSE Scale \div 2

\* lines 102-131
_calculate_complexity_score(context) ==
    LET description == context.project_description
        s1 == apply_factors(Scale, description, 1)
        s2 == IF description \cap {"complex", "complicated", "advanced", "sophisticated"} # {}
              THEN (s1 * 13) \div 10
              ELSE IF description \cap {"simple", "basic", "straightforward"} # {}
                   THEN (s1 * 7) \div 10 ELSE s1
        s3 == IF description \cap {"large", "enterprise", "extensive"} # {}
              THEN (s2 * 14) \div 10
              ELSE IF description \cap {"small", "minimal", "prototype"} # {}
                   THEN (s2 * 6) \div 10 ELSE s2
        override == context.json_overrides.complexity
    IN  clamp(IF override.t = "number" THEN override.x ELSE s3)

\* hash(context.project_name + phase) % 100.  hash() of a str is keyed by the
\* hash seed of the process (PYTHONHASHSEED, random unless set): a function
\* of the seed and the string, for which this mixing stands
str_hash_mod_100(hash_seed, phase) == (37 * hash_seed + 11 * phase + 5) % 100

\* result[key] for a dict held as a sequence of [k, v] in insertion order
dict_get(d, key) == d[CHOOSE i \in 1..Len(d) : d[i].k = key].v

\* lines 146-150: the entries of json_overrides["hours"] that int() accepts
int_items(items) ==
    LET ok == SelectSeq(items, LAMBDA it : it.t = "int")
    IN  [i \in 1..Len(ok) |-> [k |-> ok[i].k, v |-> ok[i].v]]

total_of_phases(result) ==
    SumSeq([i \in 1..Len(result) |-> IF result[i].k = "total" THEN 0 ELSE result[i].v])

\* line 153: result["total"] = sum(result.values())
total(result) == SumSeq([i \in 1..Len(result) |-> result[i].v])

\* lines 136-155: int(base_hours * complexity_score * (0.9 + 0.2 * h / 100))
_calculate_estimated_hours(context, complexity_score, hash_seed) ==
    LET computed == [p \in 1..Len(BASE_HOURS) |->
                       [k |-> BASE_HOURS_phases[p],
                        v |-> (BASE_HOURS[p] * complexity_score
                                 * (900 + 2 * str_hash_mod_100(hash_seed, p))) \div (1000 * Scale)]]
        override == context.json_overrides.hours
        result   == IF override.t = "dict"
                    THEN dict_update(computed, int_items(override.items))
                    ELSE computed
    IN  dict_update(result, <<[k |-> "total", v |-> total(result)]>>)

\* TIMELINE_FACTORS[project_size], in tenths (lines 163-173)
timeline_factor(total_hours) ==
    IF total_hours > 500 THEN 30
    ELSE IF total_hours > 300 THEN 20
    ELSE IF total_hours > 150 THEN 10
    ELSE 5

\* lines 176-187: "Week a - Week b" for each phase but "total", as <<a, b>>
RECURSIVE week_ranges(_, _, _, _)
week_ranges(hours, factor, p, current_week) ==
    IF p > Len(hours) THEN <<>>
    ELSE IF hours[p].k = "total" THEN week_ranges(hours, factor, p + 1, current_week)
    ELSE LET w == (hours[p].v * factor) \div 400
             phase_weeks == IF w > 1 THEN w ELSE 1
             end_week == current_week + phase_weeks - 1
         IN  <<[k |-> hours[p].k, v |-> <<current_week, end_week>>]>>
               \o week_ranges(hours, factor, p + 1, end_week + 1)

\* the computed timeline of a context without timeline override
timeline_breakdown(estimated_hours) ==
    LET ranges == week_ranges(estimated_hours, timeline_factor(dict_get(estimated_hours, "total")), 1, 1)
    IN  Append(ranges, [k |-> "duration", v |-> <<ranges[Len(ranges)].v[2]>>])

\* lines 263-279: today + timedelta(weeks=end_week), dates counted in days
milestones(timeline, today) ==
    LET phases == SelectSeq(timeline, LAMBDA e : e.k # "duration")
    IN  [p \in 1..Len(phases) |-> [k |-> phases[p].k, v |-> today + 7 * phases[p].v[2]]]

\* lines 242-259 and 279
_generate_custom_values(context, complexity_score, estimated_hours, today) ==
    [cost_estimate |-> dict_get(estimated_hours, "total") * 100,
     risk_level    |-> IF complexity_score > 2 * Scale THEN "High"
                       ELSE IF complexity_score < Scale THEN "Low" ELSE "Medium",
     milestones    |-> milestones(timeline_breakdown(estimated_hours), today)]

\* lines 202-234, for a project_description that names no role
resource_requirements(context, complexity_score) ==
    LET ov == context.json_overrides.resources
        d  == (complexity_score * 2) \div Scale
        dev_count == IF d > 1 THEN d ELSE 1
        q  == complexity_score \div Scale
        qa_count == IF q > 1 THEN q ELSE 1
    IN  IF ov.t = "list" THEN ov.items
        ELSE <<"Project Manager", <<dev_count, " Developers">>>>
          \o (IF complexity_score > Scale THEN <<<<qa_count, " QA Engineers">>>> ELSE <<>>)

\* one call, in a process with the given hash seed, on the given day
analyze_project_scope(context, hash_seed, today) ==
    IF analyze_project_scope_raises(context)
    THEN [raised |-> TRUE]
    ELSE LET complexity_score == _calculate_complexity_score(context)
             estimated_hours  == _calculate_estimated_hours(context, complexity_score, hash_seed)
         IN  [raised                |-> FALSE,
              complexity_score      |-> complexity_score,
              estimated_hours       |-> estimated_hours,
              timeline_breakdown    |-> timeline_breakdown(estimated_hours),
              resource_requirements |-> resource_requirements(context, complexity_score),
              custom_values         |-> _generate_custom_values(context, complexity_score,
                                                                estimated_hours, today)]

(***************************************************************************)
(* content_generator.py                                                    *)
(***************************************************************************)
max_retries == 3

rate_limit == 5

model == "gemini-2.5-flash"

\* ', '.join(resource_requirements) raises TypeError on a non-string item
build_prompt_raises(context) ==
    \/ analyze_project_scope_raises(context)
    \/ LET rs == _determine_resources(context)
       IN  \E i \in 1..Len(rs) : rs[i].t # "str"

Whitespace == {" ", "\n"}

\* re.sub of a code fence and an "html" right after it by ""; FENCE is the
\* three-backtick marker, TICK a single backtick
RECURSIVE strip_fences(_)
strip_fences(s) ==
    IF s = <<>> THEN <<>>
    ELSE IF Head(s) = "FENCE"
         THEN IF Len(s) >= 2 /\ s[2] = "html"
              THEN strip_fences(Tail(Tail(s)))
              ELSE strip_fences(Tail(s))
         ELSE <<Head(s)>> \o strip_fences(Tail(s))

\* re.sub(r"^<mark>(.+)$", r"<hN>\1</hN>", output, flags=re.MULTILINE)
RECURSIVE convert_heading(_, _, _, _, _, _)
convert_heading(s, mark, open, close, atStart, inHead) ==
    IF s = <<>> THEN (IF inHead THEN <<close>> ELSE <<>>)
    ELSE IF Head(s) = "\n"
         THEN (IF inHead THEN <<close>> ELSE <<>>) \o <<"\n">>
              \o convert_heading(Tail(s), mark, open, close, TRUE, FALSE)
         ELSE IF atStart /\ Head(s) = mark /\ Len(s) >= 2 /\ s[2] # "\n"
              THEN <<open>> \o convert_heading(Tail(s), mark, open, close, FALSE, TRUE)
              ELSE <<Head(s)>> \o convert_heading(Tail(s), mark, open, close, FALSE, inHead)

RECURSIVE lstrip(_)
lstrip(s) == IF s # <<>> /\ Head(s) \in Whitespace THEN lstrip(Tail(s)) ELSE s

RECURSIVE rstrip(_)
rstrip(s) == IF s # <<>> /\ s[Len(s)] \in Whitespace THEN rstrip(SubSeq(s, 1, Len(s) - 1)) ELSE s

postprocess_output(output) ==
    LET o1 == strip_fences(output)
        o2 == convert_heading(o1, "## ", "<h2>", "</h2>", TRUE, FALSE)
        o3 == convert_heading(o2, "# ", "<h1>", "</h1>", TRUE, FALSE)
        o4 == SelectSeq(o3, LAMBDA tok : tok # "TICK")
    IN  rstrip(lstrip(o4))

lower(tok) == IF tok = "NAME" THEN "name" ELSE tok

\* ProjectContextAnalyzer.validate_generated_content: the project name must
\* occur; the texts of ApiTexts hold no table, so the copy check passes
validate_generated_content(original_html, html, context) ==
    IF ~(\E i \in 1..Len(html) : lower(html[i]) = lower(context.project_name))
    THEN [is_valid |-> FALSE, error |-> <<"Generated content does not include project name">>]
    ELSE [is_valid |-> TRUE, error |-> None]

\* What one call of the generation API can do
Ok(text) == [kind |-> "ok", status_code |-> 200, text |-> text, exc |-> ""]

ApiTexts ==
    { <<"FENCE", "html", "\n", "<p>", "NAME", "\n", "FENCE">>,
      <<"# ", "name">>,
      <<"NAME">>,
      <<"<p>", "x", "TICK">>,
      <<"FENCE", "html">> }

ApiFailures ==
    { [kind |-> "non200",    status_code |-> 500, text |-> <<"busy">>, exc |-> ""],
      [kind |-> "empty",     status_code |-> 200, text |-> <<>>,       exc |-> ""],
      [kind |-> "exception", status_code |-> 0,   text |-> <<>>,       exc |-> "connect failed"],
      [kind |-> "exception", status_code |-> 0,   text |-> <<>>,       exc |-> ""] }

ApiOutcomes == {Ok(t) : t \in ApiTexts} \cup ApiFailures

IsFailure(o) == o.kind # "ok"

\* the error_message an attempt that does not return leaves behind
CapturedError(o, validation_error) ==
    IF o.kind = "ok" THEN <<"Content validation failed: ">> \o validation_error
    ELSE IF o.kind = "empty" THEN <<"Empty response from Gemini API.">>
    ELSE IF o.kind = "non200" THEN <<"Gemini API error: ", "500", " ">> \o o.text
    ELSE <<o.exc>>

NoResp == [kind |-> "none", status_code |-> 0, text |-> <<>>, exc |-> ""]

\* the locals of a call (retries, error_message, resp or the exception) and
\* what its collaborators saw of it: calls of the API, sleeps requested
NoFrame ==
    [pc |-> "none", retries |-> 0, error_message |-> None, resp |-> NoResp,
     calls |-> 0, sleeps |-> <<>>]

\* int((time.time() - start_time) * 1000)
generation_time_ms(frame) == SumSeq(frame.sleeps)

GeneratedSection(section, html, metadata, status, error, time_ms) ==
    [section_id          |-> section.id,
     original_html       |-> section.html_content,
     generated_html      |-> html,
     generation_metadata |-> metadata,
     validation_status   |-> status,
     error_message       |-> error,
     generation_time_ms  |-> time_ms]

NoResult ==
    [section_id |-> 0, original_html |-> <<>>, generated_html |-> <<>>,
     generation_metadata |-> [model |-> "", status_code |-> 0, validation_result |-> "absent", error |-> None],
     validation_status |-> "pending", error_message |-> None, generation_time_ms |-> 0]

ReturnsOutput_early(is_valid, retries) == is_valid \/ retries >= max_retries - 2

\* line 147: if is_valid or retries >= self.max_retries - 1
ReturnsOutput(is_valid, retries) == is_valid \/ retries >= max_retries - 1

LoopContinues_inclusive(retries) == retries <= max_retries

\* line 129: while retries < self.max_retries
LoopContinues(retries) == retries < max_retries

BackoffDelay_flat(retries) == 1500

\* line 175: await asyncio.sleep(1.5 * retries), in milliseconds
BackoffDelay(retries) == 1500 * retries

SemaphoreLocked_never(value) == FALSE

\* asyncio.Semaphore.locked()
SemaphoreLocked(value) == value = 0

\* lines 149-161
SuccessResult(section, frame, o, response_text, v) ==
    GeneratedSection(section, response_text,
        [model |-> model, status_code |-> o.status_code,
         validation_result |-> IF v.is_valid THEN "True" ELSE "False", error |-> None],
        IF v.is_valid THEN VALID ELSE INVALID, v.error, generation_time_ms(frame))

\* lines 177-185
FallbackResult(section, frame) ==
    GeneratedSection(section, <<>>,
        [model |-> model, status_code |-> 0, validation_result |-> "absent",
         error |-> frame.error_message],
        INVALID, frame.error_message, generation_time_ms(frame))

(***************************************************************************)
(* ContentGenerator.generate_section, one frame per call.  Positions:      *)
(*   acquire   at "async with self.semaphore" (line 128)                   *)
(*   calling   awaiting client.post (line 132)                             *)
(*   sleeping  awaiting asyncio.sleep (line 175)                           *)
(*   returned  the call has returned                                       *)
(***************************************************************************)
Tasks == DOMAIN frames

GatherMode == pc \in {"g_start", "g_wait", "g_done", "g_raised"}

\* the outcomes the API produces under generate_sections
GatherOutcomes ==
    { Ok(<<"FENCE", "html", "\n", "<p>", "NAME", "\n", "FENCE">>),
      Ok(<<"<p>", "x", "TICK">>),
      [kind |-> "exception", status_code |-> 0, text |-> <<>>, exc |-> "connect failed"] }

IsValidText(o) ==
    o.kind = "ok" /\ validate_generated_content(<<>>, postprocess_output(o.text), project_context).is_valid

Repertoire ==
    IF GatherMode
    THEN {o \in GatherOutcomes : IsValidText(o) \/ api_failures < MaxApiFailures}
    ELSE ApiOutcomes

ReturnFrom(t, frame, result, sem) ==
    /\ frames' = [frames EXCEPT ![t] = [frame EXCEPT !.pc = "returned", !.error_message = None]]
    /\ returned' = [returned EXCEPT ![t] = result]
    /\ semaphore' = sem + 1

\* the test of the while loop (line 129) and what follows it
LoopHead(t, frame, sem) ==
    IF LoopContinues(frame.retries)
    THEN /\ frames' = [frames EXCEPT ![t] = [frame EXCEPT !.pc = "calling", !.calls = @ + 1]]
         /\ semaphore' = sem
         /\ UNCHANGED returned
    ELSE ReturnFrom(t, frame, FallbackResult(sections[t], frame), sem)

\* lines 174-175
Backoff(t, frame, o, err) ==
    /\ frames' = [frames EXCEPT ![t] =
            [frame EXCEPT !.pc = "sleeping",
                          !.resp = o,
                          !.retries = @ + 1,
                          !.error_message = err,
                          !.sleeps = Append(@, BackoffDelay(frame.retries + 1))]]
    /\ UNCHANGED <<returned, semaphore>>

\* the semaphore hands its permits out in the order the calls arrived
Acquire(t) ==
    /\ frames[t].pc = "acquire"
    /\ ~SemaphoreLocked(semaphore)
    /\ \A u \in Tasks : u < t => frames[u].pc # "acquire"
    /\ LoopHead(t, frames[t], semaphore - 1)
    /\ UNCHANGED <<limvars, wfvars, pc, gathered, api_failures>>

\* the API call of frame t ends with outcome o (lines 132-173)
Response(t, o) ==
    /\ frames[t].pc = "calling"
    /\ LET frame == frames[t]
           response_text == postprocess_output(o.text)
           v == validate_generated_content(sections[t].html_content, response_text, project_context)
       IN  IF o.kind = "ok"
           THEN IF ReturnsOutput(v.is_valid, frame.retries)
                THEN ReturnFrom(t, [frame EXCEPT !.resp = o],
                                SuccessResult(sections[t], frame, o, response_text, v), semaphore)
                ELSE Backoff(t, frame, o, CapturedError(o, v.error))
           ELSE Backoff(t, frame, o, CapturedError(o, None))
    /\ api_failures' = IF GatherMode /\ ~IsValidText(o) THEN api_failures + 1 ELSE api_failures
    /\ UNCHANGED <<limvars, wfvars, pc, gathered>>

\* asyncio.sleep is over
Wake(t) ==
    /\ frames[t].pc = "sleeping"
    /\ LoopHead(t, frames[t], semaphore)
    /\ UNCHANGED <<limvars, wfvars, pc, gathered, api_failures>>

(***************************************************************************)
(* ContentGenerator.generate_sections                                      *)
(***************************************************************************)
gather_reversed(results) == [i \in 1..Len(results) |-> results[Len(results) + 1 - i]]

\* asyncio.gather(*tasks): the results in the order of the tasks
gather(results) == results

\* line 191: every coroutine runs up to its first suspension
GenerateSections ==
    /\ pc = "g_start"
    /\ IF build_prompt_raises(project_context)
       THEN /\ pc' = "g_raised"
            /\ UNCHANGED frames
       ELSE /\ pc' = "g_wait"
            /\ frames' = [t \in Tasks |-> [NoFrame EXCEPT !.pc = "acquire"]]
    /\ UNCHANGED <<limvars, wfvars, returned, semaphore, gathered, api_failures>>

\* line 192
GatherReturn ==
    /\ pc = "g_wait"
    /\ \A t \in Tasks : frames[t].pc = "returned"
    /\ gathered' = gather(returned)
    /\ pc' = "g_done"
    /\ UNCHANGED <<limvars, wfvars, frames, returned, semaphore, api_failures>>

(***************************************************************************)
(* workflow.py                                                             *)
(***************************************************************************)
LtTokens == {"<p>", "<h1>", "</h1>", "<h2>", "</h2>"}

Contains_lt(html) == \E i \in 1..Len(html) : html[i] \in LtTokens

\* "\n".join(parts)
RECURSIVE join(_)
join(parts) ==
    IF parts = <<>> THEN <<>>
    ELSE IF Len(parts) = 1 THEN parts[1]
    ELSE parts[1] \o <<"\n">> \o join(Tail(parts))

ParseTemplateNode ==
    /\ pc = "start"
    /\ LET r == parse_template(html_template)
       IN  IF r.raised
           THEN /\ pc' = "parse_raised"
                /\ UNCHANGED <<sections, total_sections, frames, returned>>
           ELSE /\ pc' = "loop"
                /\ sections' = r.sections
                /\ total_sections' = Len(r.sections)
                /\ frames' = [t \in 1..Len(r.sections) |-> NoFrame]
                /\ returned' = [t \in 1..Len(r.sections) |-> NoResult]
    /\ UNCHANGED <<limvars, html_template, project_context, generated_sections, final_html,
                   errors, current_section_index, idx, semaphore, gathered, api_failures>>

\* "for idx in range(total_sections)" and GenerateSectionNode.process up to
\* the first suspension of generate_section
RunLoop ==
    /\ pc = "loop"
    /\ IF idx < total_sections
       THEN /\ current_section_index' = idx
            /\ IF build_prompt_raises(project_context)
               THEN /\ pc' = "generate_raised"
                    /\ UNCHANGED frames
               ELSE /\ pc' = "awaiting"
                    /\ frames' = [frames EXCEPT ![idx + 1] = [NoFrame EXCEPT !.pc = "acquire"]]
       ELSE /\ pc' = "assemble"
            /\ UNCHANGED <<current_section_index, frames>>
    /\ UNCHANGED <<limvars, html_template, project_context, sections, generated_sections, final_html,
                   errors, total_sections, idx, returned, semaphore, gathered, api_failures>>

AppendGenerated_front(gs, generated) == <<generated>> \o gs

\* line 39: state.setdefault("generated_sections", []).append(generated)
AppendGenerated(gs, generated) == Append(gs, generated)

\* GenerateSectionNode.process, lines 38-39: the awaited call has returned
GenerateSectionNode ==
    /\ pc = "awaiting"
    /\ frames[current_section_index + 1].pc = "returned"
    /\ generated_sections' = AppendGenerated(generated_sections, returned[current_section_index + 1])
    /\ pc' = "validate"
    /\ UNCHANGED <<limvars, html_template, project_context, sections, final_html, errors,
                   current_section_index, total_sections, idx, frames, returned,
                   semaphore, gathered, api_failures>>

Validate_keeping(generated) ==
    IF generated.generated_html # <<>> /\ Contains_lt(generated.generated_html)
    THEN generated
    ELSE [generated EXCEPT !.validation_status = INVALID,
                           !.error_message = <<"Generated content is empty or invalid.">>]

Validate_trusting(generated) ==
    IF generated.generated_html # <<>> /\ Contains_lt(generated.generated_html)
    THEN [generated EXCEPT !.validation_status = VALID]
    ELSE generated

Validate_clearing(generated) ==
    IF generated.generated_html # <<>> /\ Contains_lt(generated.generated_html)
    THEN [generated EXCEPT !.validation_status = VALID]
    ELSE [generated EXCEPT !.validation_status = INVALID,
                           !.generated_html = <<>>,
                           !.error_message = <<"Generated content is empty or invalid.">>]

\* lines 54-60
Validate(generated) ==
    IF generated.generated_html # <<>> /\ Contains_lt(generated.generated_html)
    THEN [generated EXCEPT !.validation_status = VALID]
    ELSE [generated EXCEPT !.validation_status = INVALID,
                           !.error_message = <<"Generated content is empty or invalid.">>]

ValidatorNode ==
    /\ pc = "validate"
    /\ generated_sections' =
         IF current_section_index >= Len(generated_sections) THEN generated_sections
         ELSE [generated_sections EXCEPT ![current_section_index + 1] = Validate(@)]
    /\ idx' = idx + 1
    /\ pc' = "loop"
    /\ UNCHANGED <<limvars, html_template, project_context, sections, final_html, errors,
                   current_section_index, total_sections, frames, returned,
                   semaphore, gathered, api_failures>>

Assemble_unfiltered(gs) ==
    join([i \in 1..Len(gs) |-> gs[i].generated_html])

\* line 70
Assemble(gs) ==
    join(SelectSeq([i \in 1..Len(gs) |-> gs[i].generated_html], LAMBDA h : h # <<>>))

AssemblerNode ==
    /\ pc = "assemble"
    /\ final_html' = Assemble(generated_sections)
    /\ pc' = "collect"
    /\ UNCHANGED <<limvars, html_template, project_context, sections, generated_sections, errors,
                   current_section_index, total_sections, idx, frames, returned,
                   semaphore, gathered, api_failures>>

\* f"Section {g.section_id}: {g.error_message}"
ErrorEntry(g) == [section_id |-> g.section_id, error_message |-> g.error_message]

CollectErrors_by_message(gs) ==
    LET inv == SelectSeq(gs, LAMBDA g : g.error_message # None)
    IN  [i \in 1..Len(inv) |-> ErrorEntry(inv[i])]

\* lines 80-84
CollectErrors(gs) ==
    LET inv == SelectSeq(gs, LAMBDA g : g.validation_status = INVALID)
    IN  [i \in 1..Len(inv) |-> ErrorEntry(inv[i])]

ErrorHandlerNode ==
    /\ pc = "collect"
    /\ errors' = CollectErrors(generated_sections)
    /\ pc' = "done"
    /\ UNCHANGED <<limvars, html_template, project_context, sections, generated_sections, final_html,
                   current_section_index, total_sections, idx, frames, returned,
                   semaphore, gathered, api_failures>>

(***************************************************************************)
(* Specifications                                                          *)
(***************************************************************************)
\* DocumentGenerationWorkflow.run(html_template, project_context)
Init ==
    /\ html_template \in Templates
    /\ project_context \in Contexts
    /\ sections = <<>>
    /\ generated_sections = <<>>
    /\ final_html = <<>>
    /\ errors = <<>>
    /\ current_section_index = 0
    /\ total_sections = 0
    /\ idx = 0
    /\ pc = "start"
    /\ frames = <<>>
    /\ returned = <<>>
    /\ semaphore = rate_limit
    /\ gathered = <<>>
    /\ api_failures = 0
    /\ _user_requests = <<>>
    /\ clock = 0

Next ==
    \/ ParseTemplateNode
    \/ RunLoop
    \/ \E t \in Tasks : Acquire(t)
    \/ \E t \in Tasks : \E o \in Repertoire : Response(t, o)
    \/ \E t \in Tasks : Wake(t)
    \/ GenerateSectionNode
    \/ ValidatorNode
    \/ AssemblerNode
    \/ ErrorHandlerNode

Spec == Init /\ [][Next]_vars

\* ContentGenerator.generate_sections(sections, project_context)
GatherSections ==
    [i \in 1..NumGather |->
        _create_content_section([e \in 1..NumGather |-> "p"], <<i>>, PARAGRAPH, i - 1)]

InitGather ==
    /\ html_template = <<>>
    /\ project_context \in Contexts
    /\ sections = GatherSections
    /\ generated_sections = <<>>
    /\ final_html = <<>>
    /\ errors = <<>>
    /\ current_section_index = 0
    /\ total_sections = 0
    /\ idx = 0
    /\ pc = "g_start"
    /\ frames = [t \in 1..NumGather |-> NoFrame]
    /\ returned = [t \in 1..NumGather |-> NoResult]
    /\ semaphore = rate_limit
    /\ gathered = <<>>
    /\ api_failures = 0
    /\ _user_requests = <<>>
    /\ clock = 0

NextGather ==
    \/ GenerateSections
    \/ \E t \in Tasks : Acquire(t)
    \/ \E t \in Tasks : \E o \in Repertoire : Response(t, o)
    \/ \E t \in Tasks : Wake(t)
    \/ GatherReturn

SpecGather == InitGather /\ [][NextGather]_vars

\* The event loop never idles while a task is ready: a free permit is taken
\* by the task waiting for it, an API call returns or times out, a sleep
\* ends, gather returns once all its tasks have.  No call can take steps for
\* ever, so this makes every ready task run.
FairGather == WF_vars(NextGather)

SpecGatherFair == SpecGather /\ FairGather

\* HTMLSectionParser.parse_template(html)
ParseTemplate ==
    /\ pc = "p_start"
    /\ LET r == parse_template(html_template)
       IN  IF r.raised
           THEN /\ pc' = "p_raised"
                /\ UNCHANGED sections
           ELSE /\ pc' = "p_done"
                /\ sections' = r.sections
    /\ UNCHANGED <<limvars, project_context, html_template, generated_sections, final_html, errors,
                   current_section_index, total_sections, idx, frames, returned,
                   semaphore, gathered, api_failures>>

InitParse ==
    /\ html_template \in ParseTemplates
    /\ project_context = ProjectContext(Absent, Absent)
    /\ sections = <<>>
    /\ generated_sections = <<>>
    /\ final_html = <<>>
    /\ errors = <<>>
    /\ current_section_index = 0
    /\ total_sections = 0
    /\ idx = 0
    /\ pc = "p_start"
    /\ frames = <<>>
    /\ returned = <<>>
    /\ semaphore = rate_limit
    /\ gathered = <<>>
    /\ api_failures = 0
    /\ _user_requests = <<>>
    /\ clock = 0

NextParse == ParseTemplate

SpecParse == InitParse /\ [][NextParse]_vars

\* Two calls of ProjectContextAnalyzer.analyze_project_scope(context); a frame
\* is the process the call runs in (its hash seed) and the day it runs on
HashSeeds == 0..MaxHashSeed

Days == 0..MaxDay

AnalyzeFrame == [pc |-> "none", hash_seed |-> 0, today |-> 0, timeline_factor |-> 0]

AnalyzeCall(c, hash_seed, today) ==
    /\ pc = "a_calls"
    /\ frames[c].pc = "none"
    /\ LET metrics == analyze_project_scope(project_context, hash_seed, today)
       IN  /\ frames' = [frames EXCEPT ![c] =
                  [pc |-> "returned", hash_seed |-> hash_seed, today |-> today,
                   timeline_factor |-> IF metrics.raised THEN 0
                                       ELSE timeline_factor(dict_get(metrics.estimated_hours, "total"))]]
           /\ returned' = [returned EXCEPT ![c] = metrics]
    /\ UNCHANGED <<limvars, wfvars, pc, semaphore, gathered, api_failures>>

InitAnalyze ==
    /\ html_template = <<>>
    /\ project_context \in Contexts
    /\ sections = <<>>
    /\ generated_sections = <<>>
    /\ final_html = <<>>
    /\ errors = <<>>
    /\ current_section_index = 0
    /\ total_sections = 0
    /\ idx = 0
    /\ pc = "a_calls"
    /\ frames = <<AnalyzeFrame, AnalyzeFrame>>
    /\ returned = <<[raised |-> FALSE], [raised |-> FALSE]>>
    /\ semaphore = rate_limit
    /\ gathered = <<>>
    /\ api_failures = 0
    /\ _user_requests = <<>>
    /\ clock = 0

NextAnalyze ==
    \E c \in Tasks : \E today \in Days : \E hash_seed \in HashSeeds :
        AnalyzeCall(c, hash_seed, today)

SpecAnalyze == InitAnalyze /\ [][NextAnalyze]_vars

\* One call of analyze_project_scope over project descriptions and
\* json_overrides["complexity"] / ["hours"]
ScopeContext(description, complexity, hours) ==
    [ProjectContext(Absent, Absent) EXCEPT !.project_description = description,
                                           !.json_overrides.complexity = complexity,
                                           !.json_overrides.hours = hours]

Descriptions ==
    { {}, {"ml", "complex"}, {"simple", "small"}, {"enterprise"},
      {"blockchain", "complex", "large"}, {"blockchain", "ml", "complex", "large"} }

ComplexityOverrides == {Absent, JStr, JNum(200), JNum(2000), JNum(4000)}

\* every phase overridden with the same number of hours
AllPhases(h1, h2) ==
    JDict([p \in 1..Len(BASE_HOURS_phases) |->
             [k |-> BASE_HOURS_phases[p], t |-> "int", v |-> IF p <= 4 THEN h1 ELSE h2]])

HoursOverrides ==
    { Absent,
      JDict(<<[k |-> "development", t |-> "int", v |-> 200]>>),
      JDict(<<[k |-> "total", t |-> "int", v |-> 1000]>>),
      JDict(<<[k |-> "extra", t |-> "int", v |-> 50], [k |-> "design", t |-> "str", v |-> 0]>>),
      AllPhases(25, 25), AllPhases(50, 50), AllPhases(100, 50) }

ScopeContexts ==
    {ScopeContext(d, c, h) : d \in Descriptions, c \in ComplexityOverrides, h \in HoursOverrides}

InitScope ==
    /\ html_template = <<>>
    /\ project_context \in ScopeContexts
    /\ sections = <<>>
    /\ generated_sections = <<>>
    /\ final_html = <<>>
    /\ errors = <<>>
    /\ current_section_index = 0
    /\ total_sections = 0
    /\ idx = 0
    /\ pc = "a_calls"
    /\ frames = <<AnalyzeFrame>>
    /\ returned = <<[raised |-> FALSE]>>
    /\ semaphore = rate_limit
    /\ gathered = <<>>
    /\ api_failures = 0
    /\ _user_requests = <<>>
    /\ clock = 0

SpecScope == InitScope /\ [][NextAnalyze]_vars

\* ---- context_handler.py: ProjectContextHandler ----
\* A text is a sequence of tokens: "{" and "}", "a" for a JSON member such as
\* "foo": "bar", "x" for text that is not JSON, " " for a whitespace character
MaxPromptLen == 6

PromptTokens == {"{", "}", "a", "x", " "}

\* UserInput.prompt_text has min_length 1
PromptTexts == SeqsUpTo(PromptTokens, MaxPromptLen) \ {<<>>}

\* str.strip()
RECURSIVE strip(_)
strip(text) ==
    IF text = <<>> THEN <<>>
    ELSE IF Head(text) = " " THEN strip(Tail(text))
    ELSE IF text[Len(text)] = " " THEN strip(SubSeq(text, 1, Len(text) - 1))
    ELSE text

\* sanitize_input: re.sub(r'\s+', ' ', text.strip())
sanitize_input(text) ==
    LET stripped == strip(text)
        keep == {i \in 1..Len(stripped) : ~(stripped[i] = " " /\ i > 1 /\ stripped[i - 1] = " ")}
        nth(n) == CHOOSE i \in keep : Cardinality({j \in keep : j < i}) = n - 1
    IN  [n \in 1..Cardinality(keep) |-> stripped[nth(n)]]

\* JSON_PATTERN.findall: non-overlapping matches of \{[\s\S]*?\}, left to
\* right, each from a "{" to the first "}" after it
RECURSIVE findall(_, _)
findall(text, from) ==
    LET opens == {j \in from..Len(text) : text[j] = "{"}
    IN  IF opens = {} THEN <<>>
        ELSE LET j == CHOOSE o \in opens : \A o2 \in opens : o <= o2
                 closes == {k \in (j + 1)..Len(text) : text[k] = "}"}
             IN  IF closes = {} THEN <<>>
                 ELSE LET k == CHOOSE c \in closes : \A c2 \in closes : c <= c2
                      IN  <<SubSeq(text, j, k)>> \o findall(text, k + 1)

\* json.loads of a match: an object holds no member or one member, with
\* whitespace allowed around it; a dict is held as the set of its keys
json_loads(match) ==
    LET content == SelectSeq(SubSeq(match, 2, Len(match) - 1), LAMBDA tok : tok # " ")
    IN  IF content = <<>> THEN [raises |-> FALSE, value |-> {}]
        ELSE IF content = <<"a">> THEN [raises |-> FALSE, value |-> {"a"}]
        ELSE [raises |-> TRUE, value |-> {}]

reversed_forward(matches) == matches

reversed(matches) == [i \in 1..Len(matches) |-> matches[Len(matches) + 1 - i]]

\* lines 27-35: the first match of the loop that json.loads accepts
RECURSIVE first_parsed(_)
first_parsed(matches) ==
    IF matches = <<>> THEN {}
    ELSE IF ~json_loads(Head(matches)).raises THEN json_loads(Head(matches)).value
    ELSE first_parsed(Tail(matches))

extract_json_overrides(prompt_text) ==
    IF prompt_text = <<>> \/ strip(prompt_text) = <<>> THEN {}
    ELSE first_parsed(reversed(findall(prompt_text, 1)))

\* UserInput: json_overrides defaults to the empty dict
UserInput(prompt_text, json_overrides) ==
    [prompt_text |-> prompt_text, json_overrides |-> json_overrides]

UserInputs == {UserInput(t, o) : t \in PromptTexts, o \in {{}, {"explicit"}}}

\* lines 47-62; "x or y" takes y when x is the empty dict
build_project_context(user_input) ==
    LET prompt_text == sanitize_input(user_input.prompt_text)
    IN  [raised |-> FALSE,
         prompt_text |-> prompt_text,
         json_overrides |-> IF user_input.json_overrides # {}
                            THEN user_input.json_overrides
                            ELSE extract_json_overrides(prompt_text)]

BuildCall(c) ==
    /\ pc = "b_calls"
    /\ frames[c].pc = "none"
    /\ frames' = [frames EXCEPT ![c].pc = "returned"]
    /\ returned' = [returned EXCEPT ![c] = build_project_context(frames[c].user_input)]
    /\ UNCHANGED <<limvars, wfvars, pc, semaphore, gathered, api_failures>>

InitBuild ==
    /\ html_template = <<>>
    /\ project_context = ProjectContext(Absent, Absent)
    /\ sections = <<>>
    /\ generated_sections = <<>>
    /\ final_html = <<>>
    /\ errors = <<>>
    /\ current_section_index = 0
    /\ total_sections = 0
    /\ idx = 0
    /\ pc = "b_calls"
    /\ frames \in {<<[pc |-> "none", user_input |-> u]>> : u \in UserInputs}
    /\ returned = <<[raised |-> FALSE]>>
    /\ semaphore = rate_limit
    /\ gathered = <<>>
    /\ api_failures = 0
    /\ _user_requests = <<>>
    /\ clock = 0

NextBuild == \E c \in Tasks : BuildCall(c)

SpecBuild == InitBuild /\ [][NextBuild]_vars

\* ---- utils/rate_limiter.py: RateLimiter ----
MaxCalls == 5

MaxTime == 6

MaxDelta == 2

DEFAULT_LIMITS ==
    [pdf_export  |-> [count |-> 10, period |-> 3600],
     docx_export |-> [count |-> 10, period |-> 3600],
     default     |-> [count |-> 60, period |-> 3600]]

\* the custom_limits the calls are made with: the shape of DEFAULT_LIMITS with
\* 2 resp. 3 calls per period of 3 seconds
custom_limits ==
    [pdf_export  |-> [count |-> 2, period |-> 3],
     docx_export |-> [count |-> 2, period |-> 3],
     default     |-> [count |-> 3, period |-> 3]]

UserIds == {"u1"}

OperationTypes == {"pdf_export", "preview"}

\* limits.get(operation_type, limits.get("default"))
limit_config(limits, operation_type) ==
    IF operation_type \in DOMAIN limits THEN limits[operation_type] ELSE limits["default"]

\* lines 65-69
NewUserData(now) == [count |-> 0, period_start |-> now, requests |-> <<>>]

\* check_rate_limit(user_id, operation_type, custom_limits), called delta
\* seconds after the call before it; requests holds the timestamps
check_rate_limit(user_id, operation_type, delta) ==
    /\ pc = "r_calls"
    /\ Len(returned) < MaxCalls
    /\ clock + delta <= MaxTime
    /\ LET limits       == custom_limits
           max_count    == limit_config(limits, operation_type).count
           period       == limit_config(limits, operation_type).period
           user_key     == <<user_id, operation_type>>
           current_time == clock + delta
           found        == IF user_key \in DOMAIN _user_requests
                           THEN _user_requests[user_key]
                           ELSE NewUserData(current_time)
           user_data    == IF current_time - found.period_start > period
                           THEN NewUserData(current_time)
                           ELSE found
           requests     == SelectSeq(user_data.requests, LAMBDA ts : current_time - ts <= period)
           count        == Len(requests)
           allowed      == count < max_count
           stored       == IF allowed
                           THEN [user_data EXCEPT !.requests = Append(requests, current_time),
                                                  !.count = count + 1]
                           ELSE [user_data EXCEPT !.requests = requests, !.count = count]
           remaining    == IF max_count - stored.count > 0 THEN max_count - stored.count ELSE 0
       IN  /\ _user_requests' =
                 [k \in DOMAIN _user_requests \cup {user_key} |->
                     IF k = user_key THEN stored ELSE _user_requests[k]]
           /\ returned' = Append(returned,
                 [user_id |-> user_id, operation_type |-> operation_type,
                  time |-> current_time, allowed |-> allowed,
                  limit_info |-> [allowed |-> allowed, limit |-> max_count,
                                  remaining |-> remaining,
                                  reset |-> user_data.period_start + period]])
           /\ clock' = current_time
    /\ UNCHANGED <<wfvars, pc, frames, semaphore, gathered, api_failures>>

InitLimiter ==
    /\ html_template = <<>>
    /\ project_context = ProjectContext(Absent, Absent)
    /\ sections = <<>>
    /\ generated_sections = <<>>
    /\ final_html = <<>>
    /\ errors = <<>>
    /\ current_section_index = 0
    /\ total_sections = 0
    /\ idx = 0
    /\ pc = "r_calls"
    /\ frames = <<>>
    /\ returned = <<>>
    /\ semaphore = rate_limit
    /\ gathered = <<>>
    /\ api_failures = 0
    /\ _user_requests = <<>>
    /\ clock = 0

NextLimiter ==
    \E user_id \in UserIds : \E operation_type \in OperationTypes : \E delta \in 0..MaxDelta :
        check_rate_limit(user_id, operation_type, delta)

SpecLimiter == InitLimiter /\ [][NextLimiter]_vars

(***************************************************************************)
(* Properties                                                              *)
(***************************************************************************)
Returned(t) == frames[t].pc = "returned"

\* the last response of frame t was a 200 with text that fails content validation
FailedValidation(t) ==
    /\ frames[t].resp.kind = "ok"
    /\ ~validate_generated_content(sections[t].html_content,
                                   postprocess_output(frames[t].resp.text), project_context).is_valid

\* C1: run never raises: whatever the template, the context and the API do,
\* it runs every stage and returns a WorkflowState.
C1_RunNeverRaises == pc \notin {"parse_raised", "generate_raised"}

OthersHtml(k) ==
    LET n      == Len(sections)
        others == SelectSeq([i \in 1..n |-> i], LAMBDA i : i # k)
    IN  [j \in 1..Len(others) |-> returned[others[j]].generated_html]

\* C2: when the generator's result is Invalid for exactly one section k and
\* Valid for all others, run ends with exactly one error, naming section k,
\* and final_html is the newline-join of the other sections' generated_html.
C2_PartialFailure ==
    pc = "done" =>
        \A k \in 1..Len(sections) :
            ( /\ returned[k].validation_status = INVALID
              /\ \A i \in 1..Len(sections) : i # k => returned[i].validation_status = VALID )
            => /\ Len(errors) = 1
               /\ errors[1].section_id = sections[k].id
               /\ final_html = join(OthersHtml(k))

\* what of a generated section identifies it and its content
Keyed(gs) == [i \in 1..Len(gs) |-> <<gs[i].section_id, gs[i].original_html, gs[i].generated_html>>]

C3_State ==
    /\ pc = "done" =>
          /\ Len(generated_sections) = total_sections
          /\ total_sections = Len(sections)
          /\ \A i \in 1..Len(sections) :
                /\ generated_sections[i].section_id = sections[i].id
                /\ generated_sections[i].original_html = sections[i].html_content
    /\ \A t \in Tasks : frames[t].pc # "none" =>
          \A u \in 1..(t - 1) : u <= Len(generated_sections) /\ u <= idx

C3_Step ==
    \/ Keyed(generated_sections') = Keyed(generated_sections)
    \/ /\ Len(generated_sections') = Len(generated_sections) + 1
       /\ SubSeq(Keyed(generated_sections'), 1, Len(generated_sections)) = Keyed(generated_sections)

\* C3: after run, generated_sections has one result per section, the i-th
\* produced for sections[i]; the list only grows by appending at its end, and
\* section i+1 is not started before section i is generated and validated.
C3_OrderedAppendOnly == [] C3_State /\ [][C3_Step]_vars

C3_Witness ==
    /\ pc = "done"
    /\ Len(generated_sections) = 3
    /\ generated_sections[1].generated_html # generated_sections[3].generated_html

\* C4 as stated: when run ends every field of every generated section is
\* what the generator returned.
C4_NeverModified ==
    pc = "done" => \A i \in 1..Len(generated_sections) : generated_sections[i] = returned[i]

\* C4 amended: generated_html and generation_metadata (and section_id,
\* original_html, generation_time_ms) of every element of generated_sections
\* are what the generator returned; only validation_status and error_message
\* are overwritten, by the workflow's validation step.
C4_ContentNeverModified ==
    \A i \in 1..Len(generated_sections) :
        /\ generated_sections[i].generated_html = returned[i].generated_html
        /\ generated_sections[i].generation_metadata = returned[i].generation_metadata
        /\ generated_sections[i].section_id = returned[i].section_id
        /\ generated_sections[i].original_html = returned[i].original_html
        /\ generated_sections[i].generation_time_ms = returned[i].generation_time_ms

C4_Witness ==
    /\ pc = "done"
    /\ \E i \in 1..Len(generated_sections) :
          /\ returned[i].generated_html # <<>>
          /\ generated_sections[i].generated_html = returned[i].generated_html
          /\ generated_sections[i].validation_status # returned[i].validation_status
          /\ generated_sections[i].error_message # returned[i].error_message

\* C5: generate_section never raises, whatever json_overrides holds.
C5_GenerateNeverRaises == pc # "generate_raised"

\* C6: at most 5 calls of the generation API are in flight at any moment.
C6_AtMostFiveInFlight == Cardinality({t \in Tasks : frames[t].pc = "calling"}) <= 5

C6_Witness ==
    /\ Cardinality({t \in Tasks : frames[t].pc = "calling"}) = 5
    /\ \E t \in Tasks : frames[t].pc = "acquire"
    /\ semaphore = 0

\* C7: generate_sections returns one result per section, the i-th for
\* sections[i], whatever the order in which the calls complete.
C7_GatherInOrder ==
    pc = "g_done" =>
        /\ Len(gathered) = Len(sections)
        /\ \A i \in 1..Len(sections) : gathered[i].section_id = sections[i].id

\* the first call ran out of retries while the second returned at once
C7_Witness ==
    /\ pc = "g_done"
    /\ gathered[1].generation_time_ms > gathered[2].generation_time_ms
    /\ gathered[2].generation_time_ms = 0
    /\ gathered[NumGather].validation_status = VALID

\* C8: generate_section calls the API at most 3 times; a call whose last
\* attempt ended in a non-200 status, an empty text or an exception has made
\* 3 attempts and returns Invalid with generated_html "" and that attempt's
\* error; before that, every such attempt is followed by a backoff and a retry.
C8_ThreeAttemptsThenInvalid ==
    \A t \in Tasks :
        /\ frames[t].calls <= 3
        /\ (Returned(t) /\ IsFailure(frames[t].resp)) =>
              /\ frames[t].calls = 3
              /\ returned[t].validation_status = INVALID
              /\ returned[t].generated_html = <<>>
              /\ returned[t].error_message = CapturedError(frames[t].resp, None)
        /\ (frames[t].pc = "sleeping" /\ IsFailure(frames[t].resp)) =>
              /\ frames[t].retries = frames[t].calls
              /\ frames[t].error_message = CapturedError(frames[t].resp, None)
              /\ returned[t] = NoResult

C8_Witness ==
    \E t \in Tasks :
        /\ Returned(t)
        /\ frames[t].resp.kind = "non200"
        /\ frames[t].calls = 3
        /\ returned[t].error_message = <<"Gemini API error: ", "500", " ", "busy">>

\* C9: a 200 whose text fails content validation is discarded and retried on
\* attempt 1 or 2; on attempt 3 the call returns that attempt's post-processed
\* text, marked Invalid, with a non-empty error_message.
C9_InvalidOutputOnLastAttempt ==
    \A t \in Tasks :
        /\ (frames[t].pc = "sleeping" /\ FailedValidation(t)) =>
              /\ frames[t].calls \in {1, 2}
              /\ LoopContinues(frames[t].retries)
              /\ returned[t] = NoResult
        /\ (Returned(t) /\ FailedValidation(t)) =>
              /\ frames[t].calls = 3
              /\ returned[t].generated_html = postprocess_output(frames[t].resp.text)
              /\ returned[t].validation_status = INVALID
              /\ returned[t].error_message \notin {None, <<"">>}

C9_Witness ==
    \E t \in Tasks :
        /\ Returned(t)
        /\ FailedValidation(t)
        /\ frames[t].resp.text = <<"<p>", "x", "TICK">>
        /\ returned[t].generated_html = <<"<p>", "x">>

\* C10: a call that returns a valid text on attempt 3 returns it Valid, with
\* the metadata of that response, after exactly 2 backoff sleeps of 1.5 s and
\* 3.0 s.
C10_ThirdAttemptSucceeds ==
    \A t \in Tasks :
        (Returned(t) /\ frames[t].calls = 3 /\ frames[t].resp.kind = "ok" /\ ~FailedValidation(t)) =>
            /\ returned[t].validation_status = VALID
            /\ returned[t].generated_html = postprocess_output(frames[t].resp.text)
            /\ returned[t].generation_metadata =
                  [model |-> model, status_code |-> 200, validation_result |-> "True", error |-> None]
            /\ returned[t].error_message = None
            /\ frames[t].sleeps = <<1500, 3000>>

C10_Witness ==
    \E t \in Tasks :
        /\ Returned(t)
        /\ frames[t].calls = 3
        /\ returned[t].validation_status = VALID
        /\ returned[t].generation_time_ms = 4500

\* C11: once the validation step has run for a section, a generated_html that
\* is empty or holds no "<" leaves the section Invalid with a non-empty
\* error_message, whatever status the generator had given it.
C11_ValidatorDowngrades ==
    \A i \in 1..Len(generated_sections) :
        ( /\ i <= idx
          /\ \/ generated_sections[i].generated_html = <<>>
             \/ ~Contains_lt(generated_sections[i].generated_html) )
        => /\ generated_sections[i].validation_status = INVALID
           /\ generated_sections[i].error_message \notin {None, <<"">>}

\* the generator had marked the text Valid: it names the project, without markup
C11_Witness ==
    \E i \in 1..Len(generated_sections) :
        /\ i <= idx
        /\ returned[i].validation_status = VALID
        /\ returned[i].generated_html = <<"NAME">>
        /\ generated_sections[i].validation_status = INVALID

\* the indices of the generated sections with a non-empty generated_html
NonEmptyHtml == {i \in 1..Len(generated_sections) : generated_sections[i].generated_html # <<>>}

\* where the text of section i starts in the newline-joined document
OffsetOf(i) ==
    LET before == {j \in NonEmptyHtml : j < i}
        lens   == [j \in 1..Len(generated_sections) |->
                      IF j \in before THEN Len(generated_sections[j].generated_html) + 1 ELSE 0]
    IN  SumSeq(lens)

\* C12: after run, final_html is the non-empty generated_html of
\* generated_sections, in order, separated by single newlines; a section with
\* empty generated_html contributes nothing.
C12_FinalHtmlJoinsNonEmpty ==
    pc = "done" =>
        /\ Len(final_html) =
              OffsetOf(Len(generated_sections) + 1) - (IF NonEmptyHtml = {} THEN 0 ELSE 1)
        /\ \A i \in NonEmptyHtml :
              LET h == generated_sections[i].generated_html
              IN  /\ SubSeq(final_html, OffsetOf(i) + 1, OffsetOf(i) + Len(h)) = h
                  /\ OffsetOf(i) > 0 => final_html[OffsetOf(i)] = "\n"

C12_Witness ==
    /\ pc = "done"
    /\ Len(generated_sections) = 3
    /\ generated_sections[1].generated_html # <<>>
    /\ generated_sections[2].generated_html = <<>>
    /\ generated_sections[3].generated_html # <<>>

\* the indices of the generated sections that are Invalid
InvalidIdx == {i \in 1..Len(generated_sections) : generated_sections[i].validation_status = INVALID}

\* C13: after run, errors holds one entry per Invalid generated section, in
\* generated_sections order, made of its section_id and error_message, and
\* nothing else; it is empty exactly when no generated section is Invalid.
C13_ErrorsListInvalid ==
    pc = "done" =>
        /\ Len(errors) = Cardinality(InvalidIdx)
        /\ \A i \in InvalidIdx :
              LET k == Cardinality({j \in InvalidIdx : j <= i})
              IN  /\ errors[k].section_id = generated_sections[i].section_id
                  /\ errors[k].error_message = generated_sections[i].error_message
        /\ (errors = <<>>) <=> (InvalidIdx = {})

C13_Witness ==
    /\ pc = "done"
    /\ Len(generated_sections) = 3
    /\ InvalidIdx = {1, 3}
    /\ Len(errors) = 2
    /\ generated_sections[2].error_message # None

\* C14: parse_template never raises: for every sequence of top-level
\* elements it returns a list of sections.
C14_ParseNeverRaises == pc # "p_raised"

\* how many times the text of element e occurs in the sections' html_content
Occurrences(e) ==
    Cardinality({ki \in (1..Len(sections)) \X (1..MaxParseElems + 1) :
                    /\ ki[2] <= Len(sections[ki[1]].html_content)
                    /\ sections[ki[1]].html_content[ki[2]] = Serialize(html_template, e)})

\* C15: the sections' html_content, taken together, holds the text of every
\* element of the document exactly once: none is lost, none is duplicated.
C15_EveryTextExactlyOnce ==
    pc = "p_done" => \A e \in 1..Len(html_template) : Occurrences(e) = 1

\* C16: every table of the input, wherever it stands, has a section of kind
\* Table whose html_content is that table's serialization and nothing else.
C16_TableIsItsOwnSection ==
    pc = "p_done" =>
        \A e \in 1..Len(html_template) :
            html_template[e] = "table" =>
                \E k \in 1..Len(sections) :
                    /\ sections[k].section_type = TABLE
                    /\ sections[k].html_content = <<Serialize(html_template, e)>>

\* C17: in every output of parse_template the i-th section (from 0) has
\* order_index i.
C17_OrderIndexIsPosition ==
    pc = "p_done" => \A i \in 1..Len(sections) : sections[i].order_index = i - 1

\* a heading section was flushed before a table, and more followed
C17_Witness ==
    /\ pc = "p_done"
    /\ Len(sections) >= 3
    /\ \E k \in 2..Len(sections) :
          /\ sections[k].section_type = TABLE
          /\ sections[k - 1].section_type = HEADING
          /\ Len(sections[k - 1].html_content) = 2

\* following parent_id from section k reaches a section without parent in at
\* most steps steps
RECURSIVE ReachesRoot(_, _)
ReachesRoot(k, steps) ==
    IF sections[k].parent_id = NoId THEN TRUE
    ELSE IF steps = 0 THEN FALSE
    ELSE \E j \in 1..Len(sections) :
            sections[j].id = sections[k].parent_id /\ ReachesRoot(j, steps - 1)

ParentCandidates(k) ==
    {j \in 1..(k - 1) :
        /\ sections[j].section_type = HEADING
        /\ sections[k].section_type = HEADING => sections[j].level < sections[k].level}

\* C19: the parent of a Heading section is the nearest preceding Heading
\* section of strictly smaller level, the parent of any other section is the
\* nearest preceding Heading section; parent_id is None when there is none.
C19_ParentIsNearestHeading ==
    pc = "p_done" =>
        \A k \in 1..Len(sections) :
            sections[k].parent_id =
                IF ParentCandidates(k) = {} THEN NoId
                ELSE sections[CHOOSE j \in ParentCandidates(k) :
                                 \A m \in ParentCandidates(k) : m <= j].id

\* a heading whose parent is not the heading section right before it
C19_Witness ==
    /\ pc = "p_done"
    /\ \E k \in 3..Len(sections) :
          /\ sections[k].section_type = HEADING
          /\ sections[k - 1].section_type = HEADING
          /\ sections[k - 1].level >= sections[k].level
          /\ sections[k].parent_id \notin {NoId, sections[k - 1].id}

\* C20: two calls of analyze_project_scope with the same ProjectContext
\* return the same ProjectMetrics in every field, whenever and in whichever
\* process they are made.
C20_MetricsDeterministic ==
    (frames[1].pc = "returned" /\ frames[2].pc = "returned") => returned[1] = returned[2]

\* C21: a numeric json_overrides["complexity"] v gives complexity_score v
\* clamped to [0.5, 3.0] whatever the description holds; with or without the
\* override complexity_score lies in [0.5, 3.0].
C21_ComplexityOverrideClamped ==
    \A c \in Tasks :
        (frames[c].pc = "returned" /\ ~returned[c].raised) =>
            LET v == project_context.json_overrides.complexity
                score == returned[c].complexity_score
            IN  /\ Scale \div 2 <= score
                /\ score <= 3 * Scale
                /\ v.t = "number" =>
                      score = IF v.x < Scale \div 2 THEN Scale \div 2
                              ELSE IF v.x > 3 * Scale THEN 3 * Scale ELSE v.x

\* complexity 2.0 for a description that alone gives 1.5 * 1.3
C21_Witness ==
    /\ frames[1].pc = "returned"
    /\ project_context.project_description = {"ml", "complex"}
    /\ project_context.json_overrides.complexity = JNum(2000)
    /\ returned[1].complexity_score = 2 * Scale

\* C22: estimated_hours["total"] is the sum of all the other entries of
\* estimated_hours, whatever keys json_overrides["hours"] holds.
C22_TotalIsSumOfOthers ==
    \A c \in Tasks :
        (frames[c].pc = "returned" /\ ~returned[c].raised) =>
            dict_get(returned[c].estimated_hours, "total") = total_of_phases(returned[c].estimated_hours)

\* C23: the week factor is 0.5 for total < 150, 1.0 for 150 <= total < 300,
\* 2.0 for 300 <= total < 500 and 3.0 for total >= 500 (in tenths).
C23_FactorBySize ==
    \A c \in Tasks :
        (frames[c].pc = "returned" /\ ~returned[c].raised) =>
            LET total_hours == dict_get(returned[c].estimated_hours, "total")
            IN  frames[c].timeline_factor =
                    IF total_hours >= 500 THEN 30
                    ELSE IF total_hours >= 300 THEN 20
                    ELSE IF total_hours >= 150 THEN 10
                    ELSE 5

\* C24: build_project_context returns explicitly supplied json_overrides
\* unchanged, whatever JSON the prompt holds; without them json_overrides is
\* the last {...} block of the sanitized prompt that parses as a JSON object,
\* blocks that fail to parse are skipped without raising, and it is the empty
\* mapping when no block parses.
C24_OverridesExplicitOrLastBlock ==
    \A c \in Tasks :
        frames[c].pc = "returned" =>
            LET user_input == frames[c].user_input
                blocks == findall(returned[c].prompt_text, 1)
                parsing == {i \in 1..Len(blocks) : ~json_loads(blocks[i]).raises}
            IN  /\ ~returned[c].raised
                /\ user_input.json_overrides # {} =>
                       returned[c].json_overrides = user_input.json_overrides
                /\ (user_input.json_overrides = {} /\ parsing = {}) =>
                       returned[c].json_overrides = {}
                /\ (user_input.json_overrides = {} /\ parsing # {}) =>
                       \E i \in parsing :
                           /\ \A j \in parsing : j <= i
                           /\ returned[c].json_overrides = json_loads(blocks[i]).value

\* a block that parses followed by a malformed one: the malformed block is
\* skipped and the block before it is taken
C24_Witness ==
    /\ frames[1].pc = "returned"
    /\ frames[1].user_input = UserInput(<<"{", "a", "}", "{", "x", "}">>, {})
    /\ returned[1].json_overrides = {"a"}

\* C25: generate_section sleeps only between two attempts: a call that is
\* sleeping has an attempt left, and a call that gave up after max_retries
\* failed attempts has slept max_retries - 1 times.
C25_SleepOnlyBetweenAttempts ==
    \A t \in Tasks :
        /\ frames[t].pc = "sleeping" => frames[t].retries < max_retries
        /\ (frames[t].pc = "returned" /\ frames[t].retries = max_retries) =>
               Len(frames[t].sleeps) = max_retries - 1

Standalone_kinds == {"table"} \cup list_tags \cup code_tags

\* C26: in a document without headings every table, list and code block is
\* a section of its own: its section holds that element and nothing else.
C26_NoHeadingsStandalone ==
    (pc = "p_done" /\ find_all_headings(html_template, 1) = <<>>) =>
        \A e \in 1..Len(html_template) :
            name(html_template[e]) \in Standalone_kinds =>
                \E k \in 1..Len(sections) :
                    sections[k].html_content = <<Serialize(html_template, e)>>

\* C27: a code block after a heading whose text in the input has more than
\* 3 lines or more than 200 characters is a Code-block section of its own.
C27_LargeCodeBlockSplitOut ==
    pc = "p_done" =>
        \A e \in 1..Len(html_template) :
            ( /\ name(html_template[e]) \in code_tags
              /\ input_text(html_template[e]).lines > 3 \/ input_text(html_template[e]).chars > 200
              /\ \E h \in 1..(e - 1) : html_template[h] \in heading_tags ) =>
                \E k \in 1..Len(sections) :
                    /\ sections[k].section_type = CODE_BLOCK
                    /\ sections[k].html_content = <<Serialize(html_template, e)>>

\* C28: for every user and operation type with limit N per period P, the
\* calls answered allowed = True in any interval of length P are at most N:
\* no allowed call has N or more allowed calls of the same user and
\* operation type less than P before it.
C28_AtMostNPerPeriod ==
    \A i \in 1..Len(returned) :
        returned[i].allowed =>
            LET N == limit_config(custom_limits, returned[i].operation_type).count
                P == limit_config(custom_limits, returned[i].operation_type).period
                within == {j \in 1..i : /\ returned[j].allowed
                                        /\ returned[j].user_id = returned[i].user_id
                                        /\ returned[j].operation_type = returned[i].operation_type
                                        /\ returned[i].time - returned[j].time < P}
            IN  Cardinality(within) <= N

\* C29: a result the generator returned Invalid with a generated_html that
\* is non-empty and holds "<" ends run Valid, with the generator's
\* error_message and without an entry in errors; after run a generated
\* section is Invalid exactly when its generated_html is empty or holds no "<".
C29_ValidatorUpgrades ==
    pc = "done" =>
        \A i \in 1..Len(generated_sections) :
            LET markup == /\ generated_sections[i].generated_html # <<>>
                          /\ Contains_lt(generated_sections[i].generated_html)
            IN  /\ (returned[i].validation_status = INVALID /\ markup) =>
                       /\ generated_sections[i].validation_status = VALID
                       /\ generated_sections[i].error_message = returned[i].error_message
                       /\ \A k \in 1..Len(errors) :
                              errors[k].section_id # generated_sections[i].section_id
                /\ (generated_sections[i].validation_status = INVALID) <=> ~markup

\* the third text of a call had markup but not the project name
C29_Witness ==
    /\ pc = "done"
    /\ \E i \in 1..Len(generated_sections) :
          /\ returned[i].validation_status = INVALID
          /\ returned[i].error_message # None
          /\ Contains_lt(returned[i].generated_html)
          /\ generated_sections[i].validation_status = VALID
          /\ errors = <<>>

\* C30: provided every API call returns, generate_sections terminates: every
\* call has acquired a permit and returned, the N results are gathered and
\* no permit is left held.
C30_GatherTerminates ==
    <>( /\ pc = "g_done"
        /\ Len(gathered) = NumGather
        /\ \A t \in Tasks : frames[t].pc = "returned"
        /\ semaphore = rate_limit )

====
